---- MODULE Spec2Model ----
(***************************************************************************)
(* A state-machine model of banksim/model.py: the BankSim orchestrator     *)
(* (constructor, step(), run_model()) together with the persistence        *)
(* connection, the two accumulated result lists and the logger it drives.  *)
(*                                                                         *)
(* The pipeline stages, the result-recording helpers and the two insert    *)
(* helpers are imported by model.py from modules that are not part of the  *)
(* source tree at hand; their effects are modelled from the written        *)
(* specification and are marked as such where they are defined.            *)
(***************************************************************************)
EXTENDS Integers, Sequences, FiniteSets, Bags, TLC

\* ------------------------------------------------------------------ bounds
MaxBank == 2
MaxSaver == 3
MaxLoan == 3
MaxCalls == 3
MaxFaults == 1

\* Python's None, for the class attributes conn, db_cursor and simid
\* (connection ids and clock readings start at 1).
None == 0

\* strftime('%Y%m%d%H%M%S') of the wall time t seconds into the month, read as
\* an integer: day, hour, minute and second, two digits each (the year and the
\* month, the same for every reading taken here, are left out).
strftime(t) ==
    ((t \div 86400) + 1) * 1000000 + ((t % 86400) \div 3600) * 10000
        + ((t % 3600) \div 60) * 100 + (t % 60)

\* datetime.now(): the naive local wall time at the instant t
now_local(t, offset) == t + offset

\* datetime.now(timezone.utc): the instant itself
now_utc(t) == t

VARIABLES
    pc,             \* control position
    caller,         \* who invoked the step() in progress: "none", "direct", "run_model"
    plan,           \* the operations the step() in progress executes, in order
    calls,          \* the operations the step() in progress has invoked so far
    exc,            \* the exception in flight (the operation that raised), or "none"
    outcome,        \* what the last call gave its external caller
    err,            \* the error the external caller received
    ret,            \* the value run_model returned
    i,              \* run_model: loop index
    step_count,     \* run_model: argument
    rm_steps,       \* run_model: step() invocations of the call in progress
    rm_log0,        \* run_model: length of the log when the call began
    initial_bank, initial_saver, initial_loan,
    G,              \* networkx graph: [nodes, edges]
    agents,         \* schedule.agents, in the order they were added
    current_id,     \* mesa Model.current_id (next_id counter)
    running,
    collects,       \* number of datacollector.collect passes
    bank_solvent,   \* Bank.bank_solvent, by bank unique_id
    steps,          \* schedule.steps
    db_file,        \* whether the sqlite file exists
    init_db,        \* what the constructor's init_database call did
    conn, db_cursor, simid,
    conns,          \* number of connections opened so far (gives fresh ids)
    db,             \* committed rows: [simulation, agtbank]
    txn,            \* uncommitted rows written through db_cursor
    clock,          \* the last reading of the wall clock: the instant, in seconds
    tz,             \* the local zone's offset from UTC, in seconds
    sim_inserts,    \* number of run records insert_simulation_table has added
    lst_bank_ratio, lst_ibloan,
    log,            \* what the "model" logger was given
    stepCalls,      \* number of step() invocations so far
    faults          \* number of operations that raised so far

ctlv == <<pc, caller, plan, calls, exc>>
outv == <<outcome, err, ret>>
rmv == <<i, step_count, rm_steps, rm_log0>>
popv == <<initial_bank, initial_saver, initial_loan, agents, current_id, running>>
dbv == <<db_file, init_db, conn, db_cursor, simid, conns, db, txn, clock, sim_inserts>>
lstv == <<lst_bank_ratio, lst_ibloan>>
agv == <<G, bank_solvent>>
vars == <<ctlv, outv, rmv, popv, dbv, lstv, agv, collects, steps, log,
          stepCalls, faults, tz>>

\* ------------------------------------------------------------------ helpers
Range(s) == {s[k] : k \in 1..Len(s)}

RECURSIVE SetToSeq(_)
SetToSeq(S) ==
    IF S = {} THEN <<>>
    ELSE LET x == CHOOSE y \in S : TRUE IN <<x>> \o SetToSeq(S \ {x})

\* [x for x in self.schedule.agents if isinstance(x, K)]
AgentsOf(as, kind) == SelectSeq(as, LAMBDA a : a.kind = kind)

BankIds(as) == {a.unique_id : a \in Range(AgentsOf(as, "Bank"))}

\* len([x for x in self.schedule.agents if isinstance(x, Bank) and x.bank_solvent])
SolventCount(as, sol) == Cardinality({b \in BankIds(as) : sol[b]})

NoRows == [simulation |-> EmptyBag, agtbank |-> EmptyBag]
\* ------------------------------------------------------------------ class body
\* The class attributes of BankSim before any instance exists.
ClassInit ==
    /\ pc = "class" /\ caller = "none"
    /\ plan = <<>> /\ calls = <<>> /\ exc = "none"
    /\ outcome = "none" /\ err = "none" /\ ret = <<>>
    /\ i = 0 /\ step_count = 0 /\ rm_steps = 0 /\ rm_log0 = 0
    /\ initial_bank = None /\ initial_saver = None /\ initial_loan = None
    /\ G = [nodes |-> {}, edges |-> {}]
    /\ agents = <<>> /\ current_id = 0 /\ running = FALSE /\ collects = 0
    /\ bank_solvent = <<>>
    /\ steps = 0
    /\ db_file \in BOOLEAN
    /\ init_db = [ran |-> FALSE]
    /\ conn = None /\ db_cursor = None /\ simid = None
    /\ conns = 0 /\ db = NoRows /\ txn = NoRows
    /\ clock = 1 /\ tz = 0 /\ sim_inserts = 0
    /\ lst_bank_ratio = <<>> /\ lst_ibloan = <<>>
    /\ log = <<>>
    /\ stepCalls = 0 /\ faults = 0

\* ------------------------------------------------------------------ init_database
InitDbOps == <<"connect", "cursor", "open", "executescript", "commit">>

\* init_database when the operation numbered failAt raises (0: none does).
\* The local names conn and db_cursor are bound only once their assignment
\* has completed; the finally clause uses both unconditionally.
init_database(failAt) ==
    LET connBound == failAt = 0 \/ failAt > 1
        cursorBound == failAt = 0 \/ failAt > 2
        \* finally: db_cursor.close() comes first and needs db_cursor bound
        cursorClosed == cursorBound
        connClosed == cursorBound /\ connBound
    IN [ran |-> TRUE,
        failed |-> IF failAt = 0 THEN "none" ELSE InitDbOps[failAt],
        raised |-> IF failAt = 0 THEN "none"
                   ELSE IF cursorBound THEN "SQLite DB init error"
                   ELSE "UnboundLocalError",
        conn_opened |-> connBound,
        cursor_opened |-> cursorBound,
        cursor_closed |-> cursorClosed,
        conn_closed |-> connClosed,
        committed |-> failAt = 0]

\* ------------------------------------------------------------------ __init__
\* faulty variant: the graph built with nx.path_graph: consecutive nodes linked
path_graph(n) ==
    [nodes |-> 0..(n - 1), edges |-> {{k - 1, k} : k \in 1..(n - 1)}]

\* nx.empty_graph(n): nodes 0..n-1, no edges
empty_graph(n) == [nodes |-> 0..(n - 1), edges |-> {}]

\* the first loop: Bank number k gets next_id() and is placed on node k
NewBanks(n) ==
    [k \in 1..n |-> [unique_id |-> k, kind |-> "Bank", pos |-> k - 1]]

\* the second loop: each Saver gets next_id() and a random existing node
NewSavers(n, m, place) ==
    [k \in 1..m |-> [unique_id |-> n + k, kind |-> "Saver", pos |-> place[k]]]

\* faulty variant: the Loan is placed on the node after its bank's
NewLoansNextNode(n, m, l, place) ==
    [k \in 1..l |-> [unique_id |-> n + m + k, kind |-> "Loan",
                     pos |-> (place[k] + 1) % n, bank_id |-> place[k]]]

\* the third loop: each Loan gets next_id(), a random node as bank_id, and is
\* placed on that node
NewLoans(n, m, l, place) ==
    [k \in 1..l |-> [unique_id |-> n + m + k, kind |-> "Loan",
                     pos |-> place[k], bank_id |-> place[k]]]

\* schedule.agents once the three loops are done
Population(n, m, l, ps, pl) ==
    NewBanks(n) \o NewSavers(n, m, ps) \o NewLoans(n, m, l, pl)

\* faulty variant: the constructor initializes the schema whether or not the
\* file exists
BankSimInitAlways ==
    /\ pc = "class"
    /\ \E n \in 0..MaxBank, m \in 0..MaxSaver, l \in 0..MaxLoan :
       \E ps \in [1..m -> 0..(n - 1)], pl \in [1..l -> 0..(n - 1)] :
          /\ initial_bank' = n /\ initial_saver' = m /\ initial_loan' = l
          /\ G' = empty_graph(n)
          /\ agents' = Population(n, m, l, ps, pl)
          /\ current_id' = n + m + l
          /\ bank_solvent' = [b \in 1..n |-> TRUE]
    /\ init_db' = init_database(0)
    /\ log' = Append(log, "db initialization")
    /\ db_file' = TRUE
    /\ running' = TRUE
    /\ collects' = collects + 1
    /\ pc' = "idle"
    /\ UNCHANGED <<caller, plan, calls, exc, outv, rmv, conn, db_cursor, simid,
                   conns, db, txn, clock, sim_inserts, lstv, steps,
                   stepCalls, faults, tz>>

\* BankSim(initial_bank=n, initial_saver=m, initial_loan=l) returns.
BankSimInit ==
    /\ pc = "class"
    /\ \E n \in 0..MaxBank, m \in 0..MaxSaver, l \in 0..MaxLoan :
       \E ps \in [1..m -> 0..(n - 1)], pl \in [1..l -> 0..(n - 1)] :
          /\ initial_bank' = n /\ initial_saver' = m /\ initial_loan' = l
          /\ G' = empty_graph(n)
          /\ agents' = Population(n, m, l, ps, pl)
          /\ current_id' = n + m + l
          /\ bank_solvent' = [b \in 1..n |-> TRUE]
    /\ init_db' = IF db_file THEN [ran |-> FALSE] ELSE init_database(0)
    /\ log' = IF db_file THEN log ELSE Append(log, "db initialization")
    /\ db_file' = TRUE
    /\ running' = TRUE
    /\ collects' = collects + 1
    /\ pc' = "idle"
    /\ UNCHANGED <<caller, plan, calls, exc, outv, rmv, conn, db_cursor, simid,
                   conns, db, txn, clock, sim_inserts, lstv, steps,
                   stepCalls, faults, tz>>

\* BankSim(initial_bank=0, ...) with a Saver or a Loan to place: the graph has
\* no node, random.choice(list(self.G.nodes)) raises on the first agent to be
\* placed, after its id was drawn.
BankSimInitNoNode ==
    /\ pc = "class"
    /\ \E m \in 0..MaxSaver, l \in 0..MaxLoan :
          /\ m + l > 0
          /\ initial_bank' = 0 /\ initial_saver' = m /\ initial_loan' = l
    /\ G' = empty_graph(0)
    /\ current_id' = 1
    /\ init_db' = IF db_file THEN [ran |-> FALSE] ELSE init_database(0)
    /\ log' = IF db_file THEN log ELSE Append(log, "db initialization")
    /\ db_file' = TRUE
    /\ pc' = "ctor_raised"
    /\ UNCHANGED <<caller, plan, calls, exc, outv, rmv, agents, running, collects,
                   bank_solvent, conn, db_cursor, simid, conns, db, txn, clock,
                   sim_inserts, lstv, steps, stepCalls, faults, tz>>

\* The model as the constructor returns it, at the instant c on a host whose
\* zone is z seconds ahead of UTC. Stepping reads the Bank agents only; the
\* stepped model is built with one Saver and one Loan, both on the first
\* node, for the agents that step() has to leave in place.
Built(c, z) ==
    /\ pc = "idle" /\ caller = "none"
    /\ plan = <<>> /\ calls = <<>> /\ exc = "none"
    /\ outcome = "none" /\ err = "none" /\ ret = <<>>
    /\ i = 0 /\ step_count = 0 /\ rm_steps = 0 /\ rm_log0 = 0
    /\ \E n \in 1..MaxBank :
          /\ initial_bank = n /\ initial_saver = 1 /\ initial_loan = 1
          /\ G = empty_graph(n)
          /\ agents = Population(n, 1, 1, <<0>>, <<0>>)
          /\ current_id = n + 2
          /\ bank_solvent = [b \in 1..n |-> TRUE]
    /\ running = TRUE /\ collects = 1
    /\ steps = 0
    /\ db_file = TRUE
    /\ init_db = [ran |-> FALSE]
    /\ conn = None /\ db_cursor = None /\ simid = None
    /\ conns = 0 /\ db = NoRows /\ txn = NoRows
    /\ clock = c /\ tz = z /\ sim_inserts = 0
    /\ lst_bank_ratio = <<>> /\ lst_ibloan = <<>>
    /\ log = <<>>
    /\ stepCalls = 0 /\ faults = 0

\* The stepped model: the zone offset shifts every run id by the same amount
\* and nothing else depends on it, so the host is taken to run on UTC and
\* seconds are counted from the model's construction.
Init == Built(1, 0)

\* instants around the turn of a minute, an hour and a day, mid-month
ClockStarts == {14 * 86400 + d : d \in {0, 59, 3599, 43200, 86399}}

\* zone offsets: UTC-5, UTC, UTC+1, UTC+5:30
TzOffsets == {-18000, 0, 3600, 19800}

\* a model built at any of the instants, on a host in any of the zones
ClockInit == \E c \in ClockStarts, z \in TzOffsets : Built(c, z)

\* BankSim(...) raises: init_database failed, before any agent is created.
BankSimInitRaises ==
    /\ pc = "class"
    /\ ~db_file
    /\ \E f \in 1..Len(InitDbOps) :
          /\ init_db' = init_database(f)
          /\ db_file' = init_db'.conn_opened
    /\ \E n \in 0..MaxBank, m \in 0..MaxSaver, l \in 0..MaxLoan :
          /\ initial_bank' = n /\ initial_saver' = m /\ initial_loan' = l
          /\ G' = empty_graph(n)
    /\ pc' = "ctor_raised"
    /\ UNCHANGED <<caller, plan, calls, exc, outv, rmv, agents, current_id, running,
                   collects, bank_solvent, conn, db_cursor, simid, conns, db, txn,
                   clock, sim_inserts, lstv, steps, log, stepCalls, faults, tz>>

\* ------------------------------------------------------------------ step()
\* faulty variant: the branch is taken by the second step instead
FirstStepLate(s) == s = 1

\* the first-step branch, taken when schedule.steps == 0 at entry
FirstStep(s) == s = 0

FirstStepOps == <<"connect", "cursor", "mint_simid", "insert_simulation_table">>

\* faulty variant: dividends paid before the risk-weight optimization
StageOrderSwapped ==
    <<"main_evaluate_solvency", "main_second_round_effects",
      "main_pay_dividends", "main_risk_weight_optimization",
      "main_reset_insolvent_loans", "main_build_loan_book_locally",
      "main_build_loan_book_globally", "main_evaluate_liquidity">>

\* the eight pipeline calls, in the order step() makes them
StageOrder ==
    <<"main_evaluate_solvency", "main_second_round_effects",
      "main_risk_weight_optimization", "main_pay_dividends",
      "main_reset_insolvent_loans", "main_build_loan_book_locally",
      "main_build_loan_book_globally", "main_evaluate_liquidity">>

\* faulty variant: the scheduler advances before the commit
TailOpsAdvanceFirst ==
    <<"main_write_bank_ratios", "main_write_interbank_links",
      "insert_agtbank_table", "schedule_step", "commit", "collect">>

\* what follows the pipeline
TailOps ==
    <<"main_write_bank_ratios", "main_write_interbank_links",
      "insert_agtbank_table", "commit", "schedule_step", "collect">>

\* the operations of one step(), in program order
StepPlan(s) ==
    (IF FirstStep(s) THEN FirstStepOps ELSE <<>>) \o StageOrder \o TailOps

StepEntry(c) ==
    /\ plan' = StepPlan(steps)
    /\ calls' = <<>>
    /\ exc' = "none"
    /\ caller' = c
    /\ pc' = "step"
    /\ stepCalls' = stepCalls + 1

NextOp == plan[Len(calls) + 1]

AtOp(ops) == pc = "step" /\ Len(calls) < Len(plan) /\ NextOp \in ops

\* what every operation that returns normally leaves alone
OpFrame ==
    /\ calls' = Append(calls, NextOp)
    /\ UNCHANGED <<pc, caller, plan, exc, outv, rmv, popv, log, stepCalls,
                   faults, tz, db_file, init_db>>

\* The interbank exposure a borrowing bank may add to the graph. Which two
\* banks it links does not matter to the orchestrator; the pairs are taken in
\* a fixed order, so the set holds the first pair not yet linked, if any.
NewLink(g) ==
    LET absent == {x \in SUBSET g.nodes : Cardinality(x) = 2} \ g.edges
        Key(x) == LET lo == CHOOSE a \in x : \A b \in x : a <= b
                      hi == CHOOSE a \in x : \A b \in x : a >= b
                  IN lo + hi * Cardinality(g.nodes)
    IN {{e} : e \in {x \in absent : \A y \in absent : Key(x) <= Key(y)}}

\* faulty variant: the loan reset also revives the banks: every flag true again
StageOutcomesRevive(stage, sol, g) ==
    IF stage = "main_reset_insolvent_loans"
    THEN {[sol |-> [b \in DOMAIN sol |-> TRUE], edges |-> g.edges]}
    ELSE IF stage \in {"main_evaluate_solvency", "main_second_round_effects",
                       "main_evaluate_liquidity"}
    THEN {[sol |-> [b \in DOMAIN sol |-> sol[b] /\ b \notin f], edges |-> g.edges] :
             f \in SUBSET {b \in DOMAIN sol : sol[b]}}
    ELSE {[sol |-> sol, edges |-> g.edges]}

\* Effects of the pipeline stages on what the model tracks of the agents (the
\* solvency flags) and on the graph. Stages 1, 2 and 7 can drive solvent banks
\* insolvent; stage 2, the one stage step() hands self.G, can record an
\* interbank exposure as an edge; no stage makes an insolvent bank solvent again.
StageOutcomes(stage, sol, g) ==
    LET fails == IF stage \in {"main_evaluate_solvency", "main_second_round_effects",
                               "main_evaluate_liquidity"}
                 THEN SUBSET {b \in DOMAIN sol : sol[b]} ELSE {{}}
        links == IF stage = "main_second_round_effects"
                 THEN {{}} \cup NewLink(g)
                 ELSE {{}}
    IN {[sol |-> [b \in DOMAIN sol |-> sol[b] /\ b \notin f],
         edges |-> g.edges \cup e] : f \in fails, e \in links}

\* reading the clock and formatting it does not fail
CanRaise(op) == op # "mint_simid"

\* the run-record table as the run's connection sees it
SimulationTable == db.simulation (+) txn.simulation

\* Calls that cannot succeed: a call on an unset cursor or connection, and the
\* insert of a run record whose simid, the table's primary key, is taken.
MustRaise(op) ==
    \/ op = "insert_simulation_table"
          /\ \E r \in BagToSet(SimulationTable) : r[1] = simid
    \/ op = "insert_agtbank_table" /\ db_cursor = None
    \/ op = "commit" /\ conn = None

\* line 125: self.conn = sqlite3.connect(self.sqlite_db)
step_connect ==
    /\ AtOp({"connect"})
    /\ conns' = conns + 1
    /\ conn' = conns + 1
    /\ OpFrame
    /\ UNCHANGED <<db_cursor, simid, db, txn, clock, sim_inserts, lstv, agv,
                   collects, steps>>

\* line 126: self.db_cursor = self.conn.cursor(); the cursor it replaces, and
\* with it the connection that cursor kept alive, is released uncommitted
step_cursor ==
    /\ AtOp({"cursor"})
    /\ db_cursor' = conn
    /\ txn' = IF db_cursor = conn THEN txn ELSE NoRows
    /\ OpFrame
    /\ UNCHANGED <<conn, simid, conns, db, clock, sim_inserts, lstv, agv,
                   collects, steps>>

\* line 127: self.simid = int(datetime.now().strftime('%Y%m%d%H%M%S')): the
\* local wall time. A model's first reading is taken at the instant the clock
\* shows; a later reading falls into the same second or into the next one.
step_mint_simid ==
    /\ AtOp({"mint_simid"})
    /\ \E t \in {clock, clock + 1} :
          /\ simid = None => t = clock
          /\ clock' = t
          /\ simid' = strftime(now_local(t, tz))
    /\ OpFrame
    /\ UNCHANGED <<conn, db_cursor, conns, db, txn, sim_inserts, lstv, agv,
                   collects, steps>>

\* lines 128-129: insert_simulation_table(self.db_cursor, (simid, 'test', now));
\* the second reading of the clock follows the first at once and is taken in
\* the same second
step_insert_simulation_table ==
    /\ AtOp({"insert_simulation_table"})
    /\ ~MustRaise("insert_simulation_table")
    /\ txn' = [txn EXCEPT !.simulation =
                  @ (+) SetToBag({<<simid, "test", now_utc(clock)>>})]
    /\ UNCHANGED clock
    /\ sim_inserts' = sim_inserts + 1
    /\ OpFrame
    /\ UNCHANGED <<conn, db_cursor, simid, conns, db, lstv, agv, collects, steps>>

\* lines 133-156: one pipeline stage runs to its end
step_stage ==
    /\ AtOp(Range(StageOrder))
    /\ \E o \in StageOutcomes(NextOp, bank_solvent, G) :
          /\ bank_solvent' = o.sol
          /\ G' = [G EXCEPT !.edges = o.edges]
    /\ OpFrame
    /\ UNCHANGED <<conn, db_cursor, simid, conns, db, txn, clock, sim_inserts,
                   lstv, collects, steps>>

\* main_write_bank_ratios: one entry per bank, tagged with the step number
BankRatios(as, s) ==
    LET bs == AgentsOf(as, "Bank")
    IN [k \in 1..Len(bs) |-> [step |-> s, bank |-> bs[k].unique_id]]

\* main_write_interbank_links: one entry per interbank edge, tagged with the step
InterbankLinks(g, s) ==
    LET es == SetToSeq(g.edges)
    IN [k \in 1..Len(es) |-> [step |-> s, link |-> es[k]]]

\* line 158
step_write_bank_ratios ==
    /\ AtOp({"main_write_bank_ratios"})
    /\ lst_bank_ratio' = lst_bank_ratio \o BankRatios(agents, steps)
    /\ OpFrame
    /\ UNCHANGED <<conn, db_cursor, simid, conns, db, txn, clock, sim_inserts,
                   lst_ibloan, agv, collects, steps>>

\* line 159
step_write_interbank_links ==
    /\ AtOp({"main_write_interbank_links"})
    /\ lst_ibloan' = lst_ibloan \o InterbankLinks(G, steps)
    /\ OpFrame
    /\ UNCHANGED <<conn, db_cursor, simid, conns, db, txn, clock, sim_inserts,
                   lst_bank_ratio, agv, collects, steps>>

\* insert_agtbank_table: one row per bank handed over
AgtbankRows(sid, s, as) == SetToBag({<<sid, s, b>> : b \in BankIds(as)})

\* line 162
step_insert_agtbank_table ==
    /\ AtOp({"insert_agtbank_table"})
    /\ ~MustRaise("insert_agtbank_table")
    /\ txn' = [txn EXCEPT !.agtbank = @ (+) AgtbankRows(simid, steps, agents)]
    /\ OpFrame
    /\ UNCHANGED <<conn, db_cursor, simid, conns, db, clock, sim_inserts, lstv,
                   agv, collects, steps>>

\* line 164: self.conn.commit()
step_commit ==
    /\ AtOp({"commit"})
    /\ ~MustRaise("commit")
    /\ IF db_cursor = conn
       THEN /\ db' = [simulation |-> db.simulation (+) txn.simulation,
                      agtbank |-> db.agtbank (+) txn.agtbank]
            /\ txn' = NoRows
       ELSE UNCHANGED <<db, txn>>
    /\ OpFrame
    /\ UNCHANGED <<conn, db_cursor, simid, conns, clock, sim_inserts, lstv, agv,
                   collects, steps>>

\* faulty variant: the scheduler counts the step twice
step_schedule_step_twice ==
    /\ AtOp({"schedule_step"})
    /\ steps' = steps + 2
    /\ OpFrame
    /\ UNCHANGED <<conn, db_cursor, simid, conns, db, txn, clock, sim_inserts,
                   lstv, agv, collects>>

\* line 165: self.schedule.step() activates the agents and counts the step
step_schedule_step ==
    /\ AtOp({"schedule_step"})
    /\ steps' = steps + 1
    /\ OpFrame
    /\ UNCHANGED <<conn, db_cursor, simid, conns, db, txn, clock, sim_inserts,
                   lstv, agv, collects>>

\* line 166: self.datacollector.collect(self)
step_collect ==
    /\ AtOp({"collect"})
    /\ collects' = collects + 1
    /\ OpFrame
    /\ UNCHANGED <<conn, db_cursor, simid, conns, db, txn, clock, sim_inserts,
                   lstv, agv, steps>>

\* The next operation of step() raises. A pipeline stage may have changed
\* agents before it raised; any other operation raises without effect.
step_raise ==
    /\ pc = "step" /\ Len(calls) < Len(plan) /\ CanRaise(NextOp)
    /\ faults < MaxFaults \/ MustRaise(NextOp)
    /\ \E o \in StageOutcomes(NextOp, bank_solvent, G) :
          /\ bank_solvent' = o.sol
          /\ G' = [G EXCEPT !.edges = o.edges]
    /\ calls' = Append(calls, NextOp)
    /\ exc' = NextOp
    /\ pc' = "raised"
    /\ faults' = IF MustRaise(NextOp) THEN faults ELSE faults + 1
    /\ UNCHANGED tz
    /\ UNCHANGED <<caller, plan, outv, rmv, popv, dbv, lstv, collects, steps, log,
                   stepCalls>>

\* step() called by the user of the model
step_call ==
    /\ pc = "idle"
    /\ stepCalls < MaxCalls
    /\ StepEntry("direct")
    /\ outcome' = "none" /\ err' = "none" /\ ret' = <<>>
    /\ UNCHANGED <<rmv, popv, dbv, lstv, agv, collects, steps, log, faults, tz>>

\* step() reaches its end
step_return ==
    /\ pc = "step" /\ Len(calls) = Len(plan)
    /\ IF caller = "direct"
       THEN /\ pc' = "idle" /\ caller' = "none" /\ outcome' = "returned"
       ELSE /\ pc' = "rm_check" /\ UNCHANGED <<caller, outcome>>
    /\ plan' = <<>> /\ calls' = <<>>
    /\ UNCHANGED <<exc, err, ret, rmv, popv, dbv, lstv, agv, collects,
                   steps, log, stepCalls, faults, tz>>

\* faulty variant: step() swallows the error and goes on with its next operation
step_swallow ==
    /\ pc = "raised" /\ caller = "direct"
    /\ pc' = "step" /\ exc' = "none"
    /\ UNCHANGED <<caller, plan, calls, outv, rmv, popv, dbv, lstv, agv, collects,
                   steps, log, stepCalls, faults, tz>>

\* step() has no handler: the exception leaves it for the direct caller
step_propagate ==
    /\ pc = "raised" /\ caller = "direct"
    /\ pc' = "idle" /\ caller' = "none"
    /\ outcome' = "raised" /\ err' = exc /\ exc' = "none"
    /\ plan' = <<>> /\ calls' = <<>>
    /\ UNCHANGED <<ret, rmv, popv, dbv, lstv, agv, collects, steps,
                   log, stepCalls, faults, tz>>

\* ------------------------------------------------------------------ run_model()
\* run_model(step_count=n) is called
run_model_call ==
    /\ pc = "idle"
    /\ \E n \in 0..(MaxCalls - stepCalls) : step_count' = n
    /\ i' = 0 /\ rm_steps' = 0 /\ rm_log0' = Len(log)
    /\ pc' = "rm_for" /\ caller' = "run_model"
    /\ outcome' = "none" /\ err' = "none" /\ ret' = <<>>
    /\ UNCHANGED <<plan, calls, exc, popv, dbv, lstv, agv, collects, steps, log, stepCalls, faults, tz>>

\* faulty variant: the loop never looks at step_count
run_model_for_unbounded ==
    /\ pc = "rm_for"
    /\ StepEntry("run_model")
    /\ rm_steps' = rm_steps + 1
    /\ UNCHANGED <<outv, i, step_count, rm_log0, popv, dbv, lstv, agv, collects,
                   steps, log, faults, tz>>

\* lines 174-178: the loop takes its next index and calls step(), or is exhausted
run_model_for ==
    /\ pc = "rm_for"
    /\ IF i < step_count
       THEN /\ StepEntry("run_model")
            /\ rm_steps' = rm_steps + 1
       ELSE /\ pc' = "rm_convert"
            /\ UNCHANGED <<caller, plan, calls, exc, stepCalls, rm_steps>>
    /\ UNCHANGED <<outv, i, step_count, rm_log0, popv, dbv, lstv, agv, collects,
                   steps, log, faults, tz>>

\* faulty variant: the handler logs and raises again: run_model ends with the error
run_model_except_reraise ==
    /\ pc = "raised" /\ caller = "run_model"
    /\ log' = Append(log, "traceback")
    /\ pc' = "idle" /\ caller' = "none"
    /\ outcome' = "raised" /\ err' = exc /\ exc' = "none"
    /\ plan' = <<>> /\ calls' = <<>>
    /\ i' = 0 /\ step_count' = 0 /\ rm_steps' = 0 /\ rm_log0' = 0
    /\ UNCHANGED <<ret, popv, dbv, lstv, agv, collects, steps, stepCalls, faults, tz>>

\* faulty variant: the handler rolls the result lists back: the records the failed
\* step appended, tagged with its step number, are dropped
run_model_except_rollback ==
    /\ pc = "raised" /\ caller = "run_model"
    /\ log' = Append(log, "traceback")
    /\ exc' = "none"
    /\ pc' = "rm_check"
    /\ plan' = <<>> /\ calls' = <<>>
    /\ lst_bank_ratio' = SelectSeq(lst_bank_ratio, LAMBDA r : r.step # steps)
    /\ lst_ibloan' = SelectSeq(lst_ibloan, LAMBDA r : r.step # steps)
    /\ UNCHANGED <<caller, outv, rmv, popv, dbv, agv, collects, steps, stepCalls,
                   faults, tz>>

\* lines 179-181: except: logger.info(traceback.format_exc())
run_model_except ==
    /\ pc = "raised" /\ caller = "run_model"
    /\ log' = Append(log, "traceback")
    /\ exc' = "none"
    /\ pc' = "rm_check"
    /\ plan' = <<>> /\ calls' = <<>>
    /\ UNCHANGED <<caller, outv, rmv, popv, dbv, lstv, agv, collects,
                   steps, stepCalls, faults, tz>>

\* faulty variant: the notice is logged but the break is missing
run_model_check_nobreak ==
    /\ pc = "rm_check"
    /\ log' = IF SolventCount(agents, bank_solvent) = 0
              THEN Append(log, "All banks are bankrupt!") ELSE log
    /\ i' = i + 1
    /\ pc' = "rm_for"
    /\ UNCHANGED <<caller, plan, calls, exc, outv, step_count, rm_steps, rm_log0,
                   popv, dbv, lstv, agv, collects, steps, stepCalls, faults, tz>>

\* lines 182-184: the early stop when no bank is solvent
run_model_check ==
    /\ pc = "rm_check"
    /\ IF SolventCount(agents, bank_solvent) = 0
       THEN /\ log' = Append(log, "All banks are bankrupt!")
            /\ pc' = "rm_convert"
            /\ UNCHANGED i
       ELSE /\ i' = i + 1
            /\ pc' = "rm_for"
            /\ UNCHANGED log
    /\ UNCHANGED <<caller, plan, calls, exc, outv, step_count, rm_steps, rm_log0,
                   popv, dbv, lstv, agv, collects, steps, stepCalls, faults, tz>>

\* convert_result2dataframe: the two lists as two tables, rows in list order
convert_result2dataframe(lb, li) ==
    <<[table |-> "bank", rows |-> lb], [table |-> "ibloan", rows |-> li]>>

\* lines 185-186
run_model_return ==
    /\ pc = "rm_convert"
    /\ ret' = convert_result2dataframe(lst_bank_ratio, lst_ibloan)
    /\ outcome' = "returned"
    /\ pc' = "idle" /\ caller' = "none"
    /\ i' = 0 /\ step_count' = 0 /\ rm_steps' = 0 /\ rm_log0' = 0
    /\ UNCHANGED <<plan, calls, exc, err, popv, dbv, lstv, agv, collects, steps,
                   log, stepCalls, faults, tz>>

\* ------------------------------------------------------------------ a further model
\* BankSim(initial_bank=n) is constructed in a process that has constructed
\* and used a model before; the variables now describe the new instance. Its
\* graph, scheduler and data collector are new objects. conn, db_cursor and
\* simid were assigned on the earlier instance, so the new one reads the class
\* attributes, None. lst_bank_ratio and lst_ibloan are never assigned on an
\* instance: every instance reads the two list objects made in the class
\* body, with whatever was appended to them. The database file is there, with
\* what was committed to it.
BankSimAgain ==
    /\ pc = "idle"
    /\ \E n \in 1..MaxBank :
          /\ initial_bank' = n /\ initial_saver' = 1 /\ initial_loan' = 1
          /\ G' = empty_graph(n)
          /\ agents' = Population(n, 1, 1, <<0>>, <<0>>)
          /\ current_id' = n + 2
          /\ bank_solvent' = [b \in 1..n |-> TRUE]
    /\ running' = TRUE /\ collects' = 1
    /\ steps' = 0
    /\ conn' = None /\ db_cursor' = None /\ simid' = None
    /\ sim_inserts' = 0
    /\ outcome' = "constructed" /\ err' = "none" /\ ret' = <<>>
    /\ UNCHANGED <<ctlv, rmv, db_file, init_db, conns, db, txn, clock, lstv, log,
                   stepCalls, faults, tz>>

\* ------------------------------------------------------------------ specification
StepOp ==
    \/ step_connect \/ step_cursor \/ step_mint_simid
    \/ step_insert_simulation_table \/ step_stage
    \/ step_write_bank_ratios \/ step_write_interbank_links
    \/ step_insert_agtbank_table \/ step_commit
    \/ step_schedule_step \/ step_collect

Internal ==
    \/ StepOp \/ step_raise \/ step_return \/ step_propagate
    \/ run_model_for \/ run_model_except \/ run_model_check \/ run_model_return

Next == step_call \/ run_model_call \/ Internal

\* stepping a constructed model
Spec == Init /\ [][Next]_vars

\* constructing a model
NextCtor == BankSimInit \/ BankSimInitNoNode \/ BankSimInitRaises

CtorSpec == ClassInit /\ [][NextCtor]_vars

\* a call in progress always takes its next step
LiveSpec == Spec /\ WF_vars(Internal)

\* a process that builds and steps one model after another
NextProc == Next \/ BankSimAgain

ProcSpec == Init /\ [][NextProc]_vars

\* the first-step branch of a first step(), for every instant and zone
NextClock ==
    \/ step_call \/ step_connect \/ step_cursor \/ step_mint_simid
    \/ step_insert_simulation_table

ClockSpec == ClockInit /\ [][NextClock]_vars

\* ------------------------------------------------------------------ properties
Notice == "All banks are bankrupt!"

\* what the logger was given since the run_model call in progress began
RunLog == SubSeq(log, rm_log0 + 1, Len(log))

Count(seq, x) == Cardinality({k \in 1..Len(seq) : seq[k] = x})

InRunModel == caller = "run_model"

\* C1. Step failure containment: when step() raises in an iteration of
\* run_model the handler catches it and logs the traceback, run_model goes on
\* to its solvency check instead of ending with the error, and from the check,
\* if a bank is still solvent and i+1 < step_count, the loop takes index i+1
\* and calls step() again.
C1_StepFailureContained ==
    [][ /\ (pc = "raised" /\ InRunModel) =>
             /\ pc' = "rm_check" /\ caller' = "run_model"
             /\ log' = Append(log, "traceback")
             /\ outcome' # "raised" /\ err' = "none"
        /\ (pc = "rm_check" /\ SolventCount(agents, bank_solvent) > 0
                /\ i + 1 < step_count) =>
             pc' = "rm_for" /\ i' = i + 1 /\ i' < step_count'
        /\ (pc = "rm_for" /\ i < step_count) =>
             pc' = "step" /\ caller' = "run_model" /\ rm_steps' = rm_steps + 1
      ]_vars

\* C1 witness: step() is running as the second iteration of a run_model call
\* whose first iteration raised and was logged.
C1_Witness ==
    /\ pc = "step" /\ InRunModel /\ rm_steps = 2 /\ i = 1
    /\ Count(RunLog, "traceback") = 1

\* C2. Early termination: while the loop of a run_model call is running no
\* bankrupt notice of that call is logged yet; a check that finds no solvent
\* bank logs the notice and leaves the loop; once the loop is left nothing but
\* the return follows; the notice is logged at most once per call, exactly
\* once when the loop was left with no solvent bank, and then the call made
\* i+1 step() calls, fewer than step_count when i+1 < step_count.
C2_EarlyTermination ==
    /\ [](InRunModel /\ pc \in {"rm_for", "step", "raised", "rm_check"} =>
             Count(RunLog, Notice) = 0)
    /\ [](pc = "rm_convert" =>
             /\ Count(RunLog, Notice) <= 1
             /\ Count(RunLog, Notice) = 1 <=>
                    (rm_steps > 0 /\ SolventCount(agents, bank_solvent) = 0)
             /\ Count(RunLog, Notice) = 1 =>
                    /\ rm_steps = i + 1
                    /\ i + 1 < step_count => rm_steps < step_count)
    /\ [][ /\ (pc = "rm_check" /\ SolventCount(agents, bank_solvent) = 0) =>
                pc' = "rm_convert" /\ log' = Append(log, Notice)
           /\ pc = "rm_convert" => pc' = "idle" /\ stepCalls' = stepCalls
         ]_vars

\* C2 witness: the loop was left after its first iteration, of two asked for,
\* with the notice logged.
C2_Witness ==
    /\ pc = "rm_convert" /\ step_count = 2 /\ rm_steps = 1
    /\ Count(RunLog, Notice) = 1

\* C3. The run record is inserted exactly once: insert_simulation_table never
\* adds a second run record for a model, and it has added one once the first
\* step is behind.
C3_RunRecordOnce ==
    /\ sim_inserts <= 1
    /\ steps > 0 => sim_inserts = 1

\* the agent-bank snapshot table as the run's connection sees it
AgtbankTable == db.agtbank (+) txn.agtbank

\* C4. Per-step snapshot completeness: the snapshot table never holds more
\* than one row for a (run id, step number, bank), and after a step() that
\* returned it holds exactly one row per bank for the run id and that step.
C4_SnapshotOncePerBank ==
    /\ \A r \in BagToSet(AgtbankTable) : CopiesIn(r, AgtbankTable) = 1
    /\ (pc \in {"idle", "rm_check"} /\ steps > 0) =>
          \A b \in BankIds(agents) :
             CopiesIn(<<simid, steps - 1, b>>, AgtbankTable) = 1

\* the pipeline calls among the operations invoked so far
StageCalls == SelectSeq(calls, LAMBDA op : op \in Range(StageOrder))

\* the order the specification gives
FixedOrder ==
    <<"main_evaluate_solvency", "main_second_round_effects",
      "main_risk_weight_optimization", "main_pay_dividends",
      "main_reset_insolvent_loans", "main_build_loan_book_locally",
      "main_build_loan_book_globally", "main_evaluate_liquidity">>

\* C5. Fixed stage order: at every point of a step() the pipeline calls made
\* so far are an initial part of the fixed order (so none is made before the
\* earlier ones returned and none twice), and a step() that reaches its end
\* has made all eight.
C5_FixedStageOrder ==
    pc \in {"step", "raised"} =>
       /\ Len(StageCalls) <= Len(FixedOrder)
       /\ StageCalls = SubSeq(FixedOrder, 1, Len(StageCalls))
       /\ (pc = "step" /\ Len(calls) = Len(plan)) => StageCalls = FixedOrder

\* C5 witness: a step() at its end, all operations made.
C5_Witness ==
    pc = "step" /\ Len(calls) = Len(plan) /\ Len(StageCalls) = 8

\* C6. Construction invariant: when the constructor returns, the graph has
\* exactly initial_bank nodes and no edge and the scheduler holds exactly
\* initial_bank Banks, initial_saver Savers and initial_loan Loans.
C6_ConstructionInvariant ==
    pc = "idle" =>
       /\ Cardinality(G.nodes) = initial_bank
       /\ G.edges = {}
       /\ Len(AgentsOf(agents, "Bank")) = initial_bank
       /\ Len(AgentsOf(agents, "Saver")) = initial_saver
       /\ Len(AgentsOf(agents, "Loan")) = initial_loan
       /\ Len(agents) = initial_bank + initial_saver + initial_loan

\* C6 witness: a model constructed with two banks, Savers and Loans.
C6_Witness ==
    pc = "idle" /\ initial_bank = 2 /\ initial_saver = 2 /\ initial_loan = 3

Rank ==
    LET left == step_count - i
    IN CASE pc = "rm_for" -> left * 32 + (IF left > 0 THEN 31 ELSE 1)
         [] pc = "step" -> left * 32 + 3 + (Len(plan) - Len(calls))
         [] pc = "raised" -> left * 32 + 2
         [] pc = "rm_check" -> left * 32 + 1
         [] OTHER -> 0

\* C8. run_model finishes and returns: a call makes at most step_count step()
\* calls; while it runs it can always take a next step and every step it takes
\* brings it nearer to its end (so it cannot run forever, nor stop inside);
\* leaving the loop it converts the two lists as they are and returns both
\* tables.
C8_RunModelReturns ==
    /\ [](InRunModel => rm_steps <= step_count /\ Rank >= 0 /\ ENABLED Internal)
    /\ [][ /\ (InRunModel /\ InRunModel') => Rank' < Rank
           /\ pc = "rm_convert" =>
                 /\ pc' = "idle" /\ outcome' = "returned"
                 /\ Len(ret') = 2
                 /\ ret'[1].rows = lst_bank_ratio /\ ret'[2].rows = lst_ibloan
         ]_vars

\* Every run_model call that began returns, if the program keeps running.
RunModelTerminates == InRunModel ~> (pc = "idle" /\ outcome = "returned")

\* C8 witness: run_model returned two tables with rows in them.
C8_Witness ==
    /\ pc = "idle" /\ outcome = "returned" /\ Len(ret) = 2
    /\ ret[1].rows # <<>> /\ ret[2].rows # <<>>

\* C9. A direct step() does not contain errors: when an operation raises in a
\* step() the user called, that operation is the last one step() invoked, all
\* invoked ones are the plan's first ones in order, and the next thing that
\* happens is the caller receiving that very error, with nothing else changed.
C9_DirectStepPropagates ==
    /\ [](pc = "raised" =>
             /\ calls = SubSeq(plan, 1, Len(calls))
             /\ Len(calls) > 0 /\ exc = calls[Len(calls)])
    /\ [][ (pc = "raised" /\ caller = "direct") =>
              /\ pc' = "idle" /\ outcome' = "raised" /\ err' = exc
              /\ UNCHANGED <<popv, dbv, lstv, agv, collects, steps, log>>
         ]_vars

\* C9 witness: the caller of step() received the error of the dividend stage;
\* the step counter did not move and nothing was recorded.
C9_Witness ==
    /\ pc = "idle" /\ outcome = "raised" /\ err = "main_pay_dividends"
    /\ steps = 0 /\ lst_bank_ratio = <<>>

\* C10. No rollback on a failed step: from the moment step() raised in
\* run_model until the next step() begins, the solvency flags, the graph and
\* the two result lists stay as the failed step left them.
C10_NoRollback ==
    [][ ((pc = "raised" /\ InRunModel) \/ pc \in {"rm_check", "rm_for"}) =>
           UNCHANGED <<bank_solvent, G, lst_bank_ratio, lst_ibloan>>
      ]_vars

\* C10 witness: the second step() of a run_model call begins with an insolvent
\* bank, an edge and recorded ratios, all left by the first step(), which
\* raised before the scheduler advanced.
C10_Witness ==
    /\ pc = "step" /\ InRunModel /\ rm_steps = 2 /\ calls = <<>>
    /\ stepCalls = 2 /\ steps = 0
    /\ Count(RunLog, "traceback") = 1
    /\ \E b \in DOMAIN bank_solvent : ~bank_solvent[b]
    /\ G.edges # {}
    /\ lst_bank_ratio # <<>> /\ lst_ibloan # <<>>

\* C11. One connection per run: a model opens at most one connection, and the
\* connection it holds is never replaced by a later one.
C11_OneConnectionPerRun ==
    /\ conns <= 1
    /\ conn \in {None, 1}

\* what the specification puts between the pipeline and the snapshot insert
Recording == <<"main_write_bank_ratios", "main_write_interbank_links">>

\* C12. End-of-step ordering: in every step() the snapshot insert is invoked at
\* most once, and only with the eight pipeline calls and the two recording
\* calls directly before it; the commit comes directly after the snapshot
\* insert, the scheduler advance directly after the commit and the data
\* collection directly after the scheduler advance; a step() that reaches its
\* end has made the snapshot insert exactly once.
C12_EndOfStepOrdering ==
    pc \in {"step", "raised"} =>
       /\ Count(calls, "insert_agtbank_table") <= 1
       /\ \A k \in 1..Len(calls) :
             /\ calls[k] = "insert_agtbank_table" =>
                   /\ k > 10
                   /\ SubSeq(calls, k - 10, k - 1) = FixedOrder \o Recording
             /\ calls[k] = "commit" =>
                   k > 1 /\ calls[k - 1] = "insert_agtbank_table"
             /\ calls[k] = "schedule_step" =>
                   k > 1 /\ calls[k - 1] = "commit"
             /\ calls[k] = "collect" =>
                   k > 1 /\ calls[k - 1] = "schedule_step"
       /\ (pc = "step" /\ Len(calls) = Len(plan)) =>
             /\ Count(calls, "insert_agtbank_table") = 1
             /\ calls[Len(calls)] = "collect"

\* C12 witness: a second step(), one without the first-step branch, at its end.
C12_Witness ==
    /\ pc = "step" /\ Len(calls) = Len(plan) /\ steps = 2
    /\ calls[1] = "main_evaluate_solvency"

\* C13. The run id is the UTC start time: in every run record the run id is
\* the YYYYMMDDHHMMSS integer of the record's UTC creation timestamp.
C13_RunIdIsUtcStart ==
    \A r \in BagToSet(SimulationTable) : r[1] = strftime(r[3])

\* C14. Schema initialization failure and release: whenever init_database
\* failed the caller got the generic database-initialization error, and
\* whenever it ran, every connection and cursor it acquired was closed.
C14_InitDatabaseReleases ==
    init_db.ran =>
       /\ init_db.failed # "none" => init_db.raised = "SQLite DB init error"
       /\ init_db.conn_opened => init_db.conn_closed
       /\ init_db.cursor_opened => init_db.cursor_closed

\* C15. The result lists are owned by one model for one run: a model that has
\* just been constructed has an empty bank-ratio list and an empty
\* interbank-loan list.
C15_ListsOwnedByRun ==
    outcome = "constructed" => lst_bank_ratio = <<>> /\ lst_ibloan = <<>>

\* C16. Schema initialization gating: the constructor runs init_database if
\* and only if the persistence file does not exist; a constructor that returns
\* ran it, if at all, without failure and logged it; when init_database fails
\* the constructor raises with no id drawn and no agent created, the model not
\* marked as running and no data collected.
C16_SchemaInitGating ==
    [][ pc = "class" =>
          /\ init_db'.ran <=> ~db_file
          /\ pc' = "idle" =>
                /\ init_db'.ran => init_db'.failed = "none"
                /\ init_db'.ran <=> log' = Append(log, "db initialization")
          /\ (init_db'.ran /\ init_db'.failed # "none") =>
                /\ pc' = "ctor_raised"
                /\ agents' = <<>> /\ current_id' = 0
                /\ ~running' /\ collects' = 0
                /\ log' = log
      ]_vars

\* C16 witness: the script failed to execute and the constructor raised.
C16_Witness ==
    /\ pc = "ctor_raised" /\ init_db.ran /\ init_db.failed = "executescript"
    /\ agents = <<>> /\ ~running

\* the entries of the bank-ratio list for step number s and bank b
RatioEntries(s, b) ==
    {k \in 1..Len(lst_bank_ratio) :
        lst_bank_ratio[k].step = s /\ lst_bank_ratio[k].bank = b}

\* C17. One bank-ratio entry per bank per step: the bank-ratio list never
\* holds two entries for one (step number, bank), and between steps it holds
\* exactly one for every bank and every step number below the step counter.
C17_OneRatioPerBankPerStep ==
    /\ \A k \in 1..Len(lst_bank_ratio) :
          Cardinality(RatioEntries(lst_bank_ratio[k].step, lst_bank_ratio[k].bank)) = 1
    /\ (pc \in {"idle", "rm_check"} /\ steps > 0) =>
          \A s \in 0..(steps - 1), b \in BankIds(agents) :
             Cardinality(RatioEntries(s, b)) = 1

\* C18. The step counter counts completed steps only: the counter moves only
\* by one and only when a step() makes its scheduler advance, so a step() that
\* fails before it leaves the counter alone; the number of collection passes
\* moves only by one and only in the last operation of a step(), and a step()
\* returns only right after that pass, so the passes are one (construction)
\* plus the step() calls that returned; the snapshot insert is passed the
\* counter's value, so the steps that completed passed 0, 1, 2, ... without a
\* gap, each committed for every bank.
C18_StepCounter ==
    /\ [][ /\ steps' # steps =>
                 /\ steps' = steps + 1
                 /\ pc = "step" /\ pc' = "step"
                 /\ calls' = Append(calls, "schedule_step")
           /\ collects' # collects =>
                 /\ collects' = collects + 1
                 /\ pc = "step" /\ pc' = "step"
                 /\ calls' = Append(calls, "collect") /\ Len(calls') = Len(plan)
           /\ (pc = "step" /\ pc' \in {"idle", "rm_check"}) =>
                 Len(calls) > 0 /\ calls[Len(calls)] = "collect"
         ]_vars
    /\ [](/\ collects - 1 <= steps /\ steps <= collects + faults
          /\ pc \in {"idle", "rm_for", "rm_check", "rm_convert"} =>
                steps <= collects - 1 + faults
          /\ \A r \in BagToSet(AgtbankTable) : r[2] <= steps
          /\ \A s \in 0..(steps - 1), b \in BankIds(agents) :
                \E r \in BagToSet(db.agtbank) : r[2] = s /\ r[3] = b
          /\ (pc = "step" /\ Count(calls, "insert_agtbank_table") = 1
                 /\ Count(calls, "commit") = 0) =>
                \A b \in BankIds(agents) :
                   CopiesIn(<<simid, steps, b>>, txn.agtbank) >= 1)

\* C18 witness: of two step() calls the first returned and the second failed
\* before the scheduler advance: one step counted, two collection passes.
C18_Witness ==
    /\ pc = "idle" /\ outcome = "raised" /\ stepCalls = 2
    /\ steps = 1 /\ collects = 2

\* C19. No persistence write without a connection and a run id: whenever a
\* step() is about to make, or has made, its snapshot insert or its commit,
\* the model holds a connection it opened, a cursor of that connection and a
\* minted run id; none of the three is None.
C19_NoWriteWithoutConnection ==
    (/\ pc \in {"step", "raised"}
     /\ \/ \E k \in 1..Len(calls) : calls[k] \in {"insert_agtbank_table", "commit"}
        \/ AtOp({"insert_agtbank_table", "commit"})) =>
       /\ conn # None /\ conn \in 1..conns
       /\ db_cursor # None /\ db_cursor = conn
       /\ simid # None
       /\ ~MustRaise("insert_agtbank_table") /\ ~MustRaise("commit")

\* C19 witness: the retry of a failed first step, which opened a second
\* connection, has made its snapshot insert and its commit.
C19_Witness ==
    /\ pc = "step" /\ steps = 0 /\ stepCalls = 2 /\ conns = 2
    /\ Count(calls, "insert_agtbank_table") = 1 /\ Count(calls, "commit") = 1

\* C20. Agent identity and placement: in a constructed model no two agents
\* share an id; the agent the constructor created as number i is a Bank, and
\* the only Bank, on node i; every Saver sits on a node of the graph; every
\* Loan sits on the node that is its bank_id, a node of the graph; and no
\* operation of step() or run_model changes the scheduler's agents.
C20_AgentIdentityAndPlacement ==
    /\ [](pc \notin {"class", "ctor_raised"} =>
             /\ \A j, k \in 1..Len(agents) :
                   agents[j].unique_id = agents[k].unique_id => j = k
             /\ \A n \in 0..(initial_bank - 1) :
                   /\ agents[n + 1].kind = "Bank" /\ agents[n + 1].pos = n
                   /\ \A k \in 1..Len(agents) :
                         (agents[k].kind = "Bank" /\ agents[k].pos = n) => k = n + 1
             /\ \A k \in 1..Len(agents) :
                   /\ agents[k].pos \in G.nodes
                   /\ agents[k].pos \in 0..(initial_bank - 1)
                   /\ agents[k].kind = "Loan" => agents[k].bank_id = agents[k].pos)
    /\ [][pc # "class" => agents' = agents]_vars

\* C20 witness: a model with a Saver and a Loan besides its two Banks has
\* completed a step() and failed another.
C20_Witness ==
    /\ pc = "idle" /\ steps = 1 /\ faults = 1 /\ initial_bank = 2
    /\ \E k \in 1..Len(agents) : agents[k].kind = "Saver"
    /\ \E k \in 1..Len(agents) : agents[k].kind = "Loan"
====
